---- MODULE Spec2Model ----
(***************************************************************************)
(* Model of the gold price alert job (src/main.go).                        *)
(*                                                                         *)
(* One invocation of the program is one pass through run(): load the       *)
(* state file, fetch the price, derive the 22K price, maybe notify and     *)
(* write the state file, maybe reset and write the state file.  The        *)
(* external scheduler starts invocations; under Spec an invocation starts  *)
(* only when no other one is in progress.                                  *)
(*                                                                         *)
(* Prices are fixed-point numbers.  The per-ounce price of the API is in   *)
(* units of 0.001 rupee, the per-gram prices are in units of 0.0001 rupee  *)
(* (PriceScale units per rupee); every division truncates.                 *)
(***************************************************************************)
EXTENDS Integers, Sequences, FiniteSets, TLC

\* Number of invocations the scheduler may have in existence.
NumInvocations == 2

Invocations == 1..NumInvocations

----------------------------------------------------------------------------
(* Constants of the program *)

\* Units of the per-gram prices in one rupee.
PriceScale == 10 ^ 4

\* targetGoldPrice22K = 12700.0 (rupees)
targetGoldPrice22K == 12700

\* resetBuffer = 200.0 (rupees)
resetBuffer == 200

\* ounceToGram = 31.1035, as the integer 311035 / 10^4
ounceToGram == 311035

\* purityFactor = 0.916, as 916 / 1000
purityFactor == 916

\* gstFactor = 1.03, as 103 / 100
gstFactor == 103

\* The HTTP status both clients accept.
StatusOK == 200

----------------------------------------------------------------------------
(* The state file: encoding/json on the State struct *)

\* type State struct { AlertTriggered bool `json:"alert_triggered"` }
State == [AlertTriggered : BOOLEAN]

\* State{}: the zero value.
ZeroState == [AlertTriggered |-> FALSE]

\* The JSON name of the field.
FieldName == "\"alert_triggered\""

\* JSON string tokens that occur in the modelled files.
StringTokens ==
    {FieldName, "\"ALERT_TRIGGERED\"", "\"yes\"", "\"other\""}

\* encoding/json matches an object key to the field by its exact name or,
\* failing that, case-insensitively.
KeyMatchesField(key) == key \in {FieldName, "\"ALERT_TRIGGERED\""}

\* A scalar JSON value of the modelled subset: a literal, a string, a number.
IsScalar(tok) == tok \in ({"true", "false", "null", "1"} \cup StringTokens)

\* A flat JSON object of n >= 1 members: { key : value (, key : value)* }
IsObject(data) ==
    /\ Len(data) >= 5
    /\ (Len(data) - 1) % 4 = 0
    /\ data[1] = "{"
    /\ data[Len(data)] = "}"
    /\ \A i \in 1..((Len(data) - 1) \div 4) :
          /\ data[4 * i - 2] \in StringTokens
          /\ data[4 * i - 1] = ":"
          /\ IsScalar(data[4 * i])
          /\ (i < (Len(data) - 1) \div 4 => data[4 * i + 1] = ",")

\* checkValid: the data is one syntactically valid JSON value (whitespace is
\* not modelled; values are scalars, {} and flat objects).
ValidJSON(data) ==
    \/ Len(data) = 1 /\ IsScalar(data[1])
    \/ data = <<"{", "}">>
    \/ IsObject(data)

\* MarshalIndent as it would be with another name in the struct tag.
MarshalIndentOtherKey(s) ==
    <<"{", "\"other\"", ":", IF s.AlertTriggered THEN "true" ELSE "false", "}">>

\* json.MarshalIndent(s, "", "  "): the tokens of
\*   {
\*     "alert_triggered": true
\*   }
MarshalIndent(s) ==
    <<"{", FieldName, ":", IF s.AlertTriggered THEN "true" ELSE "false", "}">>

\* The decoder's walk over members i..n of a valid object: a matching key
\* with a boolean sets the field, with null leaves it, with any other value
\* records an UnmarshalTypeError and goes on; other keys are skipped.
RECURSIVE DecodeMembers(_, _, _, _)
DecodeMembers(data, i, n, acc) ==
    IF i > n THEN acc
    ELSE LET key == data[4 * i - 2]
             val == data[4 * i]
         IN  IF ~KeyMatchesField(key) THEN DecodeMembers(data, i + 1, n, acc)
             ELSE IF val \in {"true", "false"}
                  THEN DecodeMembers(data, i + 1, n,
                           [acc EXCEPT !.s = [AlertTriggered |-> (val = "true")]])
             ELSE IF val = "null" THEN DecodeMembers(data, i + 1, n, acc)
             ELSE DecodeMembers(data, i + 1, n, [acc EXCEPT !.err = TRUE])

\* Unmarshal as it would be if it stored values as it met them, with no
\* check of the whole text first.
UnmarshalUnchecked(data) ==
    IF Len(data) >= 4 /\ data[1] = "{" /\ KeyMatchesField(data[2])
       /\ data[3] = ":" /\ data[4] \in {"true", "false"}
    THEN [err |-> ~ValidJSON(data), s |-> [AlertTriggered |-> (data[4] = "true")]]
    ELSE [err |-> ~ValidJSON(data), s |-> ZeroState]

\* json.Unmarshal(data, &s) with s the zero State: the error and the s left
\* behind.  Invalid syntax is rejected before anything is stored.
Unmarshal(data) ==
    IF ~ValidJSON(data) THEN [err |-> TRUE, s |-> ZeroState]
    ELSE IF data = <<"null">> \/ data = <<"{", "}">>
         THEN [err |-> FALSE, s |-> ZeroState]
    ELSE IF Len(data) = 1 THEN [err |-> TRUE, s |-> ZeroState]
    ELSE DecodeMembers(data, 1, (Len(data) - 1) \div 4,
                       [err |-> FALSE, s |-> ZeroState])

\* A file of the file system: whether it exists, whether this process may
\* read it, and its content.
NoFile == [exists |-> FALSE, readable |-> FALSE, data |-> <<>>]

\* os.ReadFile(stateFile)
ReadFile(f) ==
    IF f.exists /\ f.readable THEN [err |-> FALSE, data |-> f.data]
    ELSE [err |-> TRUE, data |-> <<>>]

\* What may happen to one os.WriteFile of data: the open fails, or the file
\* is opened (created, truncated) and n tokens are written, all of them on
\* success.
WriteOutcomes(data) ==
    {[opened |-> FALSE, n |-> 0]} \cup {[opened |-> TRUE, n |-> k] : k \in 0..Len(data)}

WriteSucceeded(data, w) == w.opened /\ w.n = Len(data)

\* os.WriteFile(stateFile, data, 0644) with outcome w: the file afterwards.
\* A created file has mode 0644; an existing file keeps its mode.
WriteFile(f, data, w) ==
    IF ~w.opened THEN f
    ELSE [exists |-> TRUE,
          readable |-> IF f.exists THEN f.readable ELSE TRUE,
          data |-> SubSeq(data, 1, w.n)]

\* loadState(): any read error gives State{}; the Unmarshal error is dropped.
loadState(f) ==
    LET r == ReadFile(f)
    IN  IF r.err THEN ZeroState ELSE Unmarshal(r.data).s

\* saveState(s) with write outcome w: the file afterwards; both errors dropped.
saveState(f, s, w) == WriteFile(f, MarshalIndent(s), w)

----------------------------------------------------------------------------
(* Prices *)

\* floor(q + r * 10^k / c) for 0 <= r < c, digit by digit (no wide product).
RECURSIVE LongDiv(_, _, _, _)
LongDiv(q, r, c, k) ==
    IF k = 0 THEN q
    ELSE LongDiv(10 * q + (10 * r) \div c, (10 * r) % c, c, k - 1)

\* floor(x * num / den) for x >= 0, without forming x * num.
MulDiv(x, num, den) == (x \div den) * num + ((x % den) * num) \div den

\* data.PricePerOunce / ounceToGram: from 0.001 rupee per ounce to 0.0001
\* rupee per gram, floor(pricePerOunce * 10^5 / 311035).
PerGram(pricePerOunce) ==
    LongDiv(pricePerOunce \div ounceToGram, pricePerOunce % ounceToGram,
            ounceToGram, 5)

\* convertTo22K: price24K * purityFactor * gstFactor, left to right.
convertTo22K(p24) == MulDiv(MulDiv(p24, purityFactor, 1000), gstFactor, 100)

\* The decimal digit d as a character.
Digit(d) == <<"0", "1", "2", "3", "4", "5", "6", "7", "8", "9">>[d + 1]

\* The decimal digits of n >= 0, as characters.
RECURSIVE Digits(_)
Digits(n) ==
    IF n < 10 THEN <<Digit(n)>> ELSE Digits(n \div 10) \o <<Digit(n % 10)>>

\* %.2f as it would be if it cut the digits off after the second decimal.
Fmt2fTruncating(x) ==
    LET c == x \div (PriceScale \div 100)
    IN  Digits(c \div 100) \o <<".", Digit((c % 100) \div 10), Digit(c % 10)>>

\* fmt's %.2f of a price x >= 0: rounded to the nearest hundredth, the
\* characters of the integer part, a point and two decimals.
Fmt2f(x) ==
    LET c == (x + PriceScale \div 200) \div (PriceScale \div 100)
    IN  Digits(c \div 100) \o <<".", Digit((c % 100) \div 10), Digit(c % 10)>>

\* fmt.Sprintf("22K Gold hit <U+20B9>%.2f / gram\nTarget: <U+20B9>%.2f", price22K,
\* targetGoldPrice22K): the fixed texts as one element each (U+20B9 is the
\* rupee sign), the numbers character by character.
AlertMessage(p22) ==
    <<"22K Gold hit U+20B9">> \o Fmt2f(p22)
        \o <<" / gram\nTarget: U+20B9">> \o Fmt2f(targetGoldPrice22K * PriceScale)

\* Prices per ounce the API may report (0.001 rupee): no "price" field (0),
\* the scenario price 387000.0, and the prices whose derived price is
\* 12700.0000, 12700.0001, 12900.0000, 12900.0001 and 12950.0000.
PricesPerOunce ==
    {0, 387000000, 418678139, 418678146, 425271500, 425271503, 426919839}

\* What http.DefaultClient.Do and the body may give: a transport error, a
\* status, a body that decodes into GoldAPIResponse or not.
GoldResponses ==
    {[err |-> TRUE, status |-> 0, decodes |-> FALSE, price |-> 0],
     [err |-> FALSE, status |-> 500, decodes |-> FALSE, price |-> 0],
     [err |-> FALSE, status |-> StatusOK, decodes |-> FALSE, price |-> 0]}
    \cup {[err |-> FALSE, status |-> StatusOK, decodes |-> TRUE, price |-> P] :
             P \in PricesPerOunce}

\* fetchGoldPricePerGram() on response resp: (price, error).
fetchGoldPricePerGram(resp) ==
    IF resp.err THEN [price |-> 0, err |-> "transport"]
    ELSE IF resp.status # StatusOK THEN [price |-> 0, err |-> "status"]
    ELSE IF ~resp.decodes THEN [price |-> 0, err |-> "decode"]
    ELSE [price |-> PerGram(resp.price), err |-> "nil"]

\* What http.PostForm may give.
PushoverResponses ==
    {[err |-> TRUE, status |-> 0],
     [err |-> FALSE, status |-> 500],
     [err |-> FALSE, status |-> StatusOK]}

\* sendPushover(message) on response resp: the error.
sendPushover(resp) ==
    IF resp.err THEN "transport"
    ELSE IF resp.status # StatusOK THEN "status"
    ELSE "nil"

\* run() as it would be if it went on after a failed fetch.
FetchNeverAborts(err) == FALSE

\* run(): if err != nil { return } after the fetch.
FetchAborts(err) == err # "nil"

\* run() as it would be if it went on after a failed send.
SendNeverAborts(err) == FALSE

\* run(): if err := sendPushover(msg); err != nil { return }
SendAborts(err) == err # "nil"

\* The alert condition with < for <=.
AlertCondStrict(p22, s) ==
    p22 < targetGoldPrice22K * PriceScale /\ ~s.AlertTriggered

\* The alert condition without the debounce flag.
AlertCondNoFlag(p22, s) == p22 <= targetGoldPrice22K * PriceScale

\* run(): price22K <= targetGoldPrice22K && !state.AlertTriggered
AlertCond(p22, s) ==
    p22 <= targetGoldPrice22K * PriceScale /\ ~s.AlertTriggered

\* The reset condition with >= for >.
ResetCondInclusive(p22, s) ==
    p22 >= (targetGoldPrice22K + resetBuffer) * PriceScale /\ s.AlertTriggered

\* The reset condition with the flag negated.
ResetCondWrongFlag(p22, s) ==
    p22 > (targetGoldPrice22K + resetBuffer) * PriceScale /\ ~s.AlertTriggered

\* The reset condition with the buffer subtracted.
ResetCondBelow(p22, s) ==
    p22 > (targetGoldPrice22K - resetBuffer) * PriceScale /\ s.AlertTriggered

\* run(): price22K > targetGoldPrice22K+resetBuffer && state.AlertTriggered
ResetCond(p22, s) ==
    p22 > (targetGoldPrice22K + resetBuffer) * PriceScale /\ s.AlertTriggered

----------------------------------------------------------------------------
(* State *)

VARIABLES
    file,           \* state.json
    pc,             \* where each invocation is in run()
    state,          \* run's local variable state
    price24K,       \* run's local variable price24K
    price22K,       \* run's local variable price22K
    \* what each invocation has done so far (history)
    loaded,         \* the State loadState returned
    fileAtLoad,     \* the file as it was when loadState read it
    pricePerOunce,  \* data.PricePerOunce as decoded from the response
    fetchErr,       \* "none" before the fetch, then its error ("nil": none)
    sendErr,        \* "none" before a send, then its error ("nil": none)
    sendCalls,      \* calls of sendPushover
    messages,       \* the messages passed to sendPushover, in order
    saves,          \* the States passed to saveState, in order
    written,        \* for each saveState, whether its write succeeded
    mutations,      \* assignments to state.AlertTriggered
    trace,          \* the calls made so far: "load", "fetch", "send", "save"
    retryDue,       \* the previous invocation ended on a failed send
    \* history across invocations
    alerted,        \* a send has succeeded, and no invocation since has
                    \* fetched a price above target + resetBuffer
    alertedSaved,   \* as alerted, and the write after that send succeeded
                    \* on a readable file
    prevSendFailed, \* the last finished invocation ended on a failed send
    overlapped,     \* an invocation has started while another was running
    writeFailed,    \* a write of the state file has failed
    notifiedSince   \* a send has succeeded, and no write of the reset
                    \* branch has succeeded since

vars == <<file, pc, state, price24K, price22K, loaded, fileAtLoad,
          pricePerOunce, fetchErr, sendErr, sendCalls, messages, saves,
          written, mutations, trace, retryDue, alerted, alertedSaved,
          prevSendFailed, overlapped, writeFailed, notifiedSince>>

\* Contents a state file may hold before the first invocation: what
\* saveState writes, an empty or cut-off file, text that is no JSON, and
\* JSON of another shape.
InitialContents ==
    {MarshalIndent([AlertTriggered |-> TRUE]),
     MarshalIndent([AlertTriggered |-> FALSE]),
     <<>>,
     <<"{", FieldName, ":">>,
     <<"{", FieldName, ":", "true">>,
     <<"garbage">>,
     <<"null">>,
     <<"{", "}">>,
     <<"{", FieldName, ":", "\"yes\"", "}">>,
     <<"{", "\"ALERT_TRIGGERED\"", ":", "true", "}">>,
     <<"{", FieldName, ":", "true", ",", "\"other\"", ":", "1", "}">>,
     <<"{", FieldName, ":", "true", ",", FieldName, ":", "\"yes\"", "}">>}

InitialFiles ==
    {NoFile} \cup {[exists |-> TRUE, readable |-> r, data |-> d] :
                      r \in BOOLEAN, d \in InitialContents}

Init ==
    /\ file \in InitialFiles
    /\ pc = [p \in Invocations |-> "idle"]
    /\ state = [p \in Invocations |-> ZeroState]
    /\ price24K = [p \in Invocations |-> 0]
    /\ price22K = [p \in Invocations |-> 0]
    /\ loaded = [p \in Invocations |-> ZeroState]
    /\ fileAtLoad = [p \in Invocations |-> NoFile]
    /\ pricePerOunce = [p \in Invocations |-> 0]
    /\ fetchErr = [p \in Invocations |-> "none"]
    /\ sendErr = [p \in Invocations |-> "none"]
    /\ sendCalls = [p \in Invocations |-> 0]
    /\ messages = [p \in Invocations |-> <<>>]
    /\ saves = [p \in Invocations |-> <<>>]
    /\ written = [p \in Invocations |-> <<>>]
    /\ mutations = [p \in Invocations |-> 0]
    /\ trace = [p \in Invocations |-> <<>>]
    /\ retryDue = [p \in Invocations |-> FALSE]
    /\ alerted = FALSE
    /\ alertedSaved = FALSE
    /\ prevSendFailed = FALSE
    /\ overlapped = FALSE
    /\ writeFailed = FALSE
    /\ notifiedSince = FALSE

\* No invocation is in progress.
NoneRunning == \A q \in Invocations : pc[q] = "idle"

----------------------------------------------------------------------------
(* run(), step by step *)

\* The scheduler starts invocation p, and run() does state := loadState().
Start(p) ==
    /\ pc[p] = "idle"
    /\ state' = [state EXCEPT ![p] = loadState(file)]
    /\ loaded' = [loaded EXCEPT ![p] = loadState(file)]
    /\ fileAtLoad' = [fileAtLoad EXCEPT ![p] = file]
    /\ retryDue' = [retryDue EXCEPT ![p] = prevSendFailed]
    /\ trace' = [trace EXCEPT ![p] = Append(@, "load")]
    /\ overlapped' = (overlapped \/ ~NoneRunning)
    /\ pc' = [pc EXCEPT ![p] = "fetch"]
    /\ UNCHANGED <<file, price24K, price22K, pricePerOunce, fetchErr, sendErr,
                   sendCalls, messages, saves, written, mutations, alerted,
                   alertedSaved, prevSendFailed, writeFailed, notifiedSince>>

\* An invocation started when the one before it has exited.
Load(p) == NoneRunning /\ Start(p)

\* price24K, err := fetchGoldPricePerGram(); return on an error; otherwise
\* price22K := convertTo22K(price24K) and the alert condition is evaluated.
Fetch(p) ==
    /\ pc[p] = "fetch"
    /\ \E resp \in GoldResponses :
         LET r == fetchGoldPricePerGram(resp)
             p22 == convertTo22K(r.price)
             above == p22 > (targetGoldPrice22K + resetBuffer) * PriceScale
         IN  /\ fetchErr' = [fetchErr EXCEPT ![p] = r.err]
             /\ IF FetchAborts(r.err)
                THEN /\ pc' = [pc EXCEPT ![p] = "done"]
                     /\ prevSendFailed' = FALSE
                     /\ UNCHANGED <<price24K, price22K, pricePerOunce, alerted,
                                    alertedSaved>>
                ELSE /\ pricePerOunce' = [pricePerOunce EXCEPT ![p] = resp.price]
                     /\ price24K' = [price24K EXCEPT ![p] = r.price]
                     /\ price22K' = [price22K EXCEPT ![p] = p22]
                     /\ pc' = [pc EXCEPT ![p] =
                                  IF AlertCond(p22, state[p]) THEN "send"
                                  ELSE "reset"]
                     /\ alerted' = (alerted /\ ~above)
                     /\ alertedSaved' = (alertedSaved /\ ~above)
                     /\ UNCHANGED prevSendFailed
    /\ trace' = [trace EXCEPT ![p] = Append(@, "fetch")]
    /\ UNCHANGED <<file, state, loaded, fileAtLoad, sendErr, sendCalls,
                   messages, saves, written, mutations, retryDue, overlapped,
                   writeFailed, notifiedSince>>

\* msg := fmt.Sprintf(...); sendPushover(msg); return on an error; otherwise
\* state.AlertTriggered = true.
Send(p) ==
    /\ pc[p] = "send"
    /\ \E resp \in PushoverResponses :
         LET e == sendPushover(resp)
         IN  /\ sendErr' = [sendErr EXCEPT ![p] = e]
             /\ sendCalls' = [sendCalls EXCEPT ![p] = @ + 1]
             /\ IF SendAborts(e)
                THEN /\ pc' = [pc EXCEPT ![p] = "done"]
                     /\ prevSendFailed' = TRUE
                     /\ UNCHANGED <<state, mutations, alerted, notifiedSince>>
                ELSE /\ state' = [state EXCEPT ![p] = [AlertTriggered |-> TRUE]]
                     /\ mutations' = [mutations EXCEPT ![p] = @ + 1]
                     /\ alerted' = TRUE
                     /\ notifiedSince' = (notifiedSince \/ e = "nil")
                     /\ pc' = [pc EXCEPT ![p] = "save_alert"]
                     /\ UNCHANGED prevSendFailed
    /\ messages' = [messages EXCEPT ![p] = Append(@, AlertMessage(price22K[p]))]
    /\ trace' = [trace EXCEPT ![p] = Append(@, "send")]
    /\ UNCHANGED <<file, price24K, price22K, loaded, fileAtLoad, pricePerOunce,
                   fetchErr, saves, written, retryDue, alertedSaved,
                   overlapped, writeFailed>>

\* saveState(state) of the alert branch.
SaveAlert(p) ==
    /\ pc[p] = "save_alert"
    /\ \E w \in WriteOutcomes(MarshalIndent(state[p])) :
         LET ok == WriteSucceeded(MarshalIndent(state[p]), w)
         IN  /\ file' = saveState(file, state[p], w)
             /\ saves' = [saves EXCEPT ![p] = Append(@, state[p])]
             /\ written' = [written EXCEPT ![p] = Append(@, ok)]
             /\ writeFailed' = (writeFailed \/ ~ok)
             /\ alertedSaved' =
                   (alertedSaved \/ (sendErr[p] = "nil" /\ ok /\ file'.readable))
    /\ trace' = [trace EXCEPT ![p] = Append(@, "save")]
    /\ pc' = [pc EXCEPT ![p] = "reset"]
    /\ UNCHANGED <<state, price24K, price22K, loaded, fileAtLoad,
                   pricePerOunce, fetchErr, sendErr, sendCalls, messages,
                   mutations, retryDue, alerted, prevSendFailed, overlapped,
                   notifiedSince>>

\* The reset condition; state.AlertTriggered = false when it holds, the end
\* of run() when it does not.
Reset(p) ==
    /\ pc[p] = "reset"
    /\ IF ResetCond(price22K[p], state[p])
       THEN /\ state' = [state EXCEPT ![p] = [AlertTriggered |-> FALSE]]
            /\ mutations' = [mutations EXCEPT ![p] = @ + 1]
            /\ pc' = [pc EXCEPT ![p] = "save_reset"]
            /\ UNCHANGED prevSendFailed
       ELSE /\ pc' = [pc EXCEPT ![p] = "done"]
            /\ prevSendFailed' = FALSE
            /\ UNCHANGED <<state, mutations>>
    /\ UNCHANGED <<file, price24K, price22K, loaded, fileAtLoad, pricePerOunce,
                   fetchErr, sendErr, sendCalls, messages, saves, written,
                   trace, retryDue, alerted, alertedSaved, overlapped,
                   writeFailed, notifiedSince>>

\* saveState(state) of the reset branch, and the end of run().
SaveReset(p) ==
    /\ pc[p] = "save_reset"
    /\ \E w \in WriteOutcomes(MarshalIndent(state[p])) :
         LET ok == WriteSucceeded(MarshalIndent(state[p]), w)
         IN  /\ file' = saveState(file, state[p], w)
             /\ saves' = [saves EXCEPT ![p] = Append(@, state[p])]
             /\ written' = [written EXCEPT ![p] = Append(@, ok)]
             /\ writeFailed' = (writeFailed \/ ~ok)
             /\ notifiedSince' = (notifiedSince /\ ~ok)
    /\ trace' = [trace EXCEPT ![p] = Append(@, "save")]
    /\ pc' = [pc EXCEPT ![p] = "done"]
    /\ prevSendFailed' = FALSE
    /\ UNCHANGED <<state, price24K, price22K, loaded, fileAtLoad,
                   pricePerOunce, fetchErr, sendErr, sendCalls, messages,
                   mutations, retryDue, alerted, alertedSaved, overlapped>>

\* main returns and the process exits: its locals are gone.
Exit(p) ==
    /\ pc[p] = "done"
    /\ pc' = [pc EXCEPT ![p] = "idle"]
    /\ state' = [state EXCEPT ![p] = ZeroState]
    /\ price24K' = [price24K EXCEPT ![p] = 0]
    /\ price22K' = [price22K EXCEPT ![p] = 0]
    /\ loaded' = [loaded EXCEPT ![p] = ZeroState]
    /\ fileAtLoad' = [fileAtLoad EXCEPT ![p] = NoFile]
    /\ pricePerOunce' = [pricePerOunce EXCEPT ![p] = 0]
    /\ fetchErr' = [fetchErr EXCEPT ![p] = "none"]
    /\ sendErr' = [sendErr EXCEPT ![p] = "none"]
    /\ sendCalls' = [sendCalls EXCEPT ![p] = 0]
    /\ messages' = [messages EXCEPT ![p] = <<>>]
    /\ saves' = [saves EXCEPT ![p] = <<>>]
    /\ written' = [written EXCEPT ![p] = <<>>]
    /\ mutations' = [mutations EXCEPT ![p] = 0]
    /\ trace' = [trace EXCEPT ![p] = <<>>]
    /\ retryDue' = [retryDue EXCEPT ![p] = FALSE]
    /\ UNCHANGED <<file, alerted, alertedSaved, prevSendFailed, overlapped,
                   writeFailed, notifiedSince>>

Next ==
    \E p \in Invocations :
        \/ Load(p)
        \/ Fetch(p)
        \/ Send(p)
        \/ SaveAlert(p)
        \/ Reset(p)
        \/ SaveReset(p)
        \/ Exit(p)

\* Invocations that never overlap.
Spec == Init /\ [][Next]_vars

\* The fetch succeeds.
FetchOK(p) == Fetch(p) /\ fetchErr'[p] = "nil"

\* The fetch succeeds with a derived price <= target.
FetchLow(p) ==
    FetchOK(p) /\ price22K'[p] <= targetGoldPrice22K * PriceScale

\* The write of the alert branch succeeds.
SaveAlertOK(p) == SaveAlert(p) /\ written'[p][Len(written'[p])]

\* The write of the reset branch succeeds.
SaveResetOK(p) == SaveReset(p) /\ written'[p][Len(written'[p])]

\* The scenario price, below the target, and the price whose derived price
\* is 12950.0000, above target + resetBuffer.
OverlapPrices == {387000000, 426919839}

\* The fetch succeeds with one of these prices.
FetchOverlap(p) == FetchOK(p) /\ pricePerOunce'[p] \in OverlapPrices

\* The send succeeds.
SendOverlap(p) == Send(p) /\ sendErr'[p] = "nil"

\* No state file, a file that cannot be read, or the file saveState writes
\* for alert_triggered = true.
InitOverlap ==
    /\ Init
    /\ file \in {NoFile,
                 [exists |-> TRUE, readable |-> FALSE,
                  data |-> MarshalIndent(ZeroState)],
                 [exists |-> TRUE, readable |-> TRUE,
                  data |-> MarshalIndent([AlertTriggered |-> TRUE])]}

\* Invocations that the scheduler may start while others are running, with
\* fetches, sends and writes that succeed.
NextOverlap ==
    \E p \in Invocations :
        \/ Start(p)
        \/ FetchOverlap(p)
        \/ SendOverlap(p)
        \/ SaveAlertOK(p)
        \/ Reset(p)
        \/ SaveResetOK(p)
        \/ Exit(p)

SpecOverlap == InitOverlap /\ [][NextOverlap]_vars

\* The state starts Idle.
InitRetry == Init /\ loadState(file) = ZeroState

\* Invocations that never overlap, each fetching a derived price <= target.
NextRetry ==
    \E p \in Invocations :
        \/ Load(p)
        \/ FetchLow(p)
        \/ Send(p)
        \/ SaveAlert(p)
        \/ Reset(p)
        \/ Exit(p)

\* A send that succeeds, a write of the alert branch that succeeds.
SendSucceeds == \E p \in Invocations : Send(p) /\ sendErr'[p] = "nil"
SaveSucceeds ==
    \E p \in Invocations : SaveAlert(p) /\ written'[p] = <<TRUE>>

\* The scheduler keeps starting invocations and each runs to its end; sends
\* do not fail for ever, nor do the writes that follow them.
SpecRetry ==
    /\ InitRetry
    /\ [][NextRetry]_vars
    /\ WF_vars(NextRetry)
    /\ SF_vars(SendSucceeds)
    /\ SF_vars(SaveSucceeds)

\* No state file, or the file saveState writes for alert_triggered = false.
InitFresh ==
    /\ Init
    /\ file.exists => file.data = MarshalIndent(ZeroState)

\* Invocations that never overlap, from a first run.
SpecFresh == InitFresh /\ [][Next]_vars

----------------------------------------------------------------------------
(* Properties *)

\* The thresholds in price units.
TargetPrice == targetGoldPrice22K * PriceScale
ResetPrice == (targetGoldPrice22K + resetBuffer) * PriceScale

Triggered == [AlertTriggered |-> TRUE]
Idle == [AlertTriggered |-> FALSE]

\* Invocation p has finished run() after a successful fetch.
Fetched(p) == pc[p] = "done" /\ fetchErr[p] = "nil"

\* Invocation p has finished run() after sendPushover returned an error.
SendFailed(p) == pc[p] = "done" /\ sendErr[p] \in {"transport", "status"}

\* C1: a run whose fetch succeeds with derived price <= target (equality
\* included) and which loaded Idle calls sendPushover exactly once; when that
\* send succeeds the run's state is Triggered and saveState has been called
\* once, with alert_triggered = true, which is what the file holds when the
\* write succeeded.
C1_TriggerFromIdle ==
    \A p \in Invocations :
        (Fetched(p) /\ price22K[p] <= TargetPrice /\ loaded[p] = Idle)
        => /\ sendCalls[p] = 1
           /\ sendErr[p] = "nil"
              => /\ state[p] = Triggered
                 /\ saves[p] = <<Triggered>>
                 /\ (written[p][1] => file.data = MarshalIndent(Triggered))

\* C1 happens at the boundary: derived price exactly the target, send and
\* write succeeded.
C1_Witness ==
    \E p \in Invocations :
        /\ Fetched(p) /\ price22K[p] = TargetPrice /\ loaded[p] = Idle
        /\ sendErr[p] = "nil" /\ saves[p] = <<Triggered>>
        /\ written[p] = <<TRUE>>

\* C2 as stated: whenever a run is about to send, no notification has been
\* sent successfully since the last observation of a derived price above
\* target + resetBuffer.
C2_Original ==
    \A p \in Invocations : pc[p] = "send" => ~alerted

\* C2 as amended: whenever a run is about to send, no notification has been
\* sent successfully and followed by a successful write to a readable
\* state file since the last observation of a derived price above
\* target + resetBuffer.
C2_NoDuplicateOncePersisted ==
    \A p \in Invocations : pc[p] = "send" => ~alertedSaved

\* A run that found the persisted flag of an earlier notification and a
\* price <= target, and sent nothing.
C2_Witness ==
    \E p \in Invocations :
        /\ alertedSaved
        /\ Fetched(p) /\ price22K[p] <= TargetPrice /\ loaded[p] = Triggered
        /\ sendCalls[p] = 0

\* C3: a run with derived price <= target that loaded Triggered calls
\* neither sendPushover nor saveState; state and file are as loaded.
C3_SuppressedWhenTriggered ==
    \A p \in Invocations :
        (Fetched(p) /\ price22K[p] <= TargetPrice /\ loaded[p] = Triggered)
        => /\ sendCalls[p] = 0
           /\ saves[p] = <<>>
           /\ state[p] = Triggered
           /\ file = fileAtLoad[p]

C3_Witness ==
    \E p \in Invocations :
        /\ Fetched(p) /\ price22K[p] = TargetPrice /\ loaded[p] = Triggered
        /\ sendCalls[p] = 0

\* C4: a run with derived price in (target, target + resetBuffer] ends with
\* the state it loaded, Idle or Triggered, having sent and written nothing.
C4_DeadZone ==
    \A p \in Invocations :
        (Fetched(p) /\ price22K[p] > TargetPrice /\ price22K[p] <= ResetPrice)
        => /\ state[p] = loaded[p]
           /\ mutations[p] = 0
           /\ sendCalls[p] = 0
           /\ saves[p] = <<>>
           /\ file = fileAtLoad[p]

\* The upper end of the dead zone with Triggered loaded.
C4_Witness ==
    \E p \in Invocations :
        /\ Fetched(p) /\ price22K[p] = ResetPrice /\ loaded[p] = Triggered
        /\ state[p] = Triggered

\* C5: a run whose fetch succeeds with derived price > target + resetBuffer
\* and which loaded Triggered ends with state Idle, has called saveState
\* once, with alert_triggered = false, which is what the file holds when the
\* write succeeded, and has not called sendPushover.
C5_ResetFromTriggered ==
    \A p \in Invocations :
        (Fetched(p) /\ price22K[p] > ResetPrice /\ loaded[p] = Triggered)
        => /\ state[p] = Idle
           /\ saves[p] = <<Idle>>
           /\ (written[p][1] => file.data = MarshalIndent(Idle))
           /\ sendCalls[p] = 0

\* The first price above the dead zone, reset written.
C5_Witness ==
    \E p \in Invocations :
        /\ Fetched(p) /\ price22K[p] = ResetPrice + 1 /\ loaded[p] = Triggered
        /\ saves[p] = <<Idle>> /\ written[p] = <<TRUE>>

\* C6: a run that loaded Idle, derived a price <= target and whose send
\* failed ends without calling saveState, the file untouched and still
\* loading as Idle; and a run that follows a run ended by a failed send, and
\* again fetches a price <= target, calls sendPushover.
C6_FailedSendNotSaved ==
    \A p \in Invocations :
        /\ (SendFailed(p) /\ loaded[p] = Idle /\ price22K[p] <= TargetPrice)
           => /\ saves[p] = <<>>
              /\ state[p] = Idle
              /\ file = fileAtLoad[p]
              /\ loadState(file) = Idle
        /\ (retryDue[p] /\ Fetched(p) /\ price22K[p] <= TargetPrice)
           => sendCalls[p] = 1

\* A retry after a failed send that fails again, by a status.
C6_Witness ==
    \E p \in Invocations :
        /\ retryDue[p] /\ SendFailed(p) /\ sendErr[p] = "status"
        /\ sendCalls[p] = 1 /\ saves[p] = <<>>

\* C7: once the fetch has failed (transport, status or body) the run is
\* over: sendPushover and saveState are not called and the file is as it
\* was loaded, whatever state was loaded.
C7_FetchFailureAborts ==
    \A p \in Invocations :
        fetchErr[p] \in {"transport", "status", "decode"}
        => /\ pc[p] = "done"
           /\ sendCalls[p] = 0
           /\ saves[p] = <<>>
           /\ state[p] = loaded[p]
           /\ file = fileAtLoad[p]

C7_Witness ==
    \E p \in Invocations :
        /\ pc[p] = "done" /\ fetchErr[p] = "decode" /\ loaded[p] = Triggered

\* C8: in a run the state is assigned at most once and saveState is called
\* at most once, with a value other than the loaded one; after the alert
\* branch has set the state to Triggered the reset condition is false.
C8_AtMostOneTransition ==
    \A p \in Invocations :
        /\ mutations[p] <= 1
        /\ Len(saves[p]) <= 1
        /\ (saves[p] # <<>> => saves[p][1] # loaded[p])
        /\ (sendErr[p] = "nil" => ~ResetCond(price22K[p], Triggered))

\* The alert branch taken at the highest price that takes it.
C8_Witness ==
    \E p \in Invocations :
        /\ pc[p] = "done" /\ sendErr[p] = "nil" /\ price22K[p] = TargetPrice
        /\ saves[p] = <<Triggered>> /\ mutations[p] = 1

\* The State last passed to saveState by an invocation that is past it.
LastSaved(p) == saves[p][Len(saves[p])]
Saved(p) == saves[p] # <<>> /\ pc[p] \in {"reset", "done"}

\* C9 as stated: after saveState(s), loadState() returns s.
C9_Original ==
    \A p \in Invocations : Saved(p) => loadState(file) = LastSaved(p)

\* C9 as amended: after a saveState(s) whose write succeeded, on a state
\* file that can be read, loadState() returns s.
C9_RoundTrip ==
    \A p \in Invocations :
        (Saved(p) /\ written[p][Len(written[p])] /\ file.readable)
        => loadState(file) = LastSaved(p)

\* Triggered written over a file that did not decode, and read back.
C9_Witness ==
    \E p \in Invocations :
        /\ Saved(p) /\ LastSaved(p) = Triggered /\ written[p] = <<TRUE>>
        /\ file.readable /\ fileAtLoad[p].exists
        /\ ~ValidJSON(fileAtLoad[p].data)
        /\ loadState(file) = Triggered

\* The state file is missing, unreadable or holds no valid JSON.
Unusable(f) == ~f.exists \/ ~f.readable \/ ~ValidJSON(f.data)

Contains(msg, sub) ==
    \E i \in 1..(Len(msg) - Len(sub) + 1) :
        SubSeq(msg, i, i + Len(sub) - 1) = sub

\* Invocation p has finished run() having decoded the price 387000.0 per
\* ounce with Idle loaded.
Scenario(p) ==
    Fetched(p) /\ pricePerOunce[p] = 387000000 /\ loaded[p] = Idle

\* C11 as stated: in the scenario the one message sent contains "11736.50",
\* and after a successful send saveState is called with Triggered.
C11_Original ==
    \A p \in Invocations :
        Scenario(p)
        => /\ Len(messages[p]) = 1
           /\ Contains(messages[p][1], <<"1", "1", "7", "3", "6", ".", "5", "0">>)
           /\ sendErr[p] = "nil" => saves[p] = <<Triggered>>

\* C11 as amended: in the scenario the per-gram base is 12442.3296 and the
\* derived price 11739.0891; the one message sent contains "11739.09", and
\* after a successful send saveState is called with Triggered.
C11_Scenario ==
    \A p \in Invocations :
        Scenario(p)
        => /\ price24K[p] = 124423296
           /\ price22K[p] = 117390891
           /\ Len(messages[p]) = 1
           /\ Contains(messages[p][1], <<"1", "1", "7", "3", "9", ".", "0", "9">>)
           /\ sendErr[p] = "nil" => saves[p] = <<Triggered>>

\* The scenario with the send and the write succeeding.
C11_Witness ==
    \E p \in Invocations :
        /\ Scenario(p) /\ sendErr[p] = "nil"
        /\ saves[p] = <<Triggered>> /\ written[p] = <<TRUE>>
        /\ loadState(file) = Triggered

\* Invocation p is past a saveState whose write failed.
FailedWrite(p) == Saved(p) /\ ~written[p][Len(written[p])]

\* a is b cut off before its end.
ProperPrefix(a, b) == Len(a) < Len(b) /\ a = SubSeq(b, 1, Len(a))

\* C12 as stated: after a failed write the run has gone on with the state
\* it assigned, has sent exactly if it loaded Idle, the file is as it was
\* loaded, and after a successful send the file still loads as Idle.
C12_Original ==
    \A p \in Invocations :
        FailedWrite(p)
        => /\ state[p] = LastSaved(p)
           /\ sendCalls[p] = (IF loaded[p] = Idle THEN 1 ELSE 0)
           /\ file = fileAtLoad[p]
           /\ sendErr[p] = "nil" => loadState(file) = Idle

\* C12 as amended: as stated, but the file is as it was loaded or holds a
\* cut-off part of the new content.
C12_WriteFailureSwallowed ==
    \A p \in Invocations :
        FailedWrite(p)
        => /\ state[p] = LastSaved(p)
           /\ sendCalls[p] = (IF loaded[p] = Idle THEN 1 ELSE 0)
           /\ \/ file = fileAtLoad[p]
              \/ /\ file.exists
                 /\ ProperPrefix(file.data, MarshalIndent(LastSaved(p)))
           /\ sendErr[p] = "nil" => loadState(file) = Idle

\* A run that notified and whose write stopped after the value: the file is
\* cut off and loads as Idle.
C12_Witness ==
    \E p \in Invocations :
        /\ pc[p] = "done" /\ sendErr[p] = "nil" /\ written[p] = <<FALSE>>
        /\ file.readable
        /\ file.data = <<"{", FieldName, ":", "true">>
        /\ loadState(file) = Idle

\* C13: the calls of a run are load, fetch, then at most one send, then at
\* most one save; a send only after a successful fetch; a save of Triggered
\* only after a send that returned no error.
C13_Order ==
    \A p \in Invocations :
        /\ trace[p] \in {<<>>, <<"load">>, <<"load", "fetch">>,
                         <<"load", "fetch", "send">>,
                         <<"load", "fetch", "send", "save">>,
                         <<"load", "fetch", "save">>}
        /\ sendCalls[p] <= 1
        /\ sendCalls[p] = 1 => fetchErr[p] = "nil"
        /\ (\E i \in 1..Len(saves[p]) : saves[p][i] = Triggered)
           => /\ sendErr[p] = "nil"
              /\ trace[p] = <<"load", "fetch", "send", "save">>

C13_Witness ==
    \E p \in Invocations :
        /\ pc[p] = "done" /\ trace[p] = <<"load", "fetch", "send", "save">>
        /\ saves[p] = <<Triggered>>

\* C14: sendPushover is called only in a run whose fetch succeeded with a
\* derived price <= target and which loaded Idle; a finished run whose price
\* and loaded state match neither transition has sent and written nothing.
C14_OnlyTriggerNotifies ==
    \A p \in Invocations :
        /\ sendCalls[p] > 0
           => /\ fetchErr[p] = "nil"
              /\ price22K[p] <= TargetPrice
              /\ loaded[p] = Idle
        /\ (/\ Fetched(p)
            /\ ~(price22K[p] <= TargetPrice /\ loaded[p] = Idle)
            /\ ~(price22K[p] > ResetPrice /\ loaded[p] = Triggered))
           => /\ sendCalls[p] = 0
              /\ saves[p] = <<>>
              /\ state[p] = loaded[p]
              /\ file = fileAtLoad[p]

\* Idle at a price above the dead zone: neither transition.
C14_Witness ==
    \E p \in Invocations :
        /\ Fetched(p) /\ price22K[p] > ResetPrice /\ loaded[p] = Idle
        /\ sendCalls[p] = 0 /\ saves[p] = <<>>

\* The notification has been delivered, the state file loads as Triggered
\* and no run is about to send.
Settled ==
    /\ alerted
    /\ loadState(file) = Triggered
    /\ \A p \in Invocations : pc[p] # "send"

\* C15 as stated: with every fetch giving a price <= target, from a state
\* that loads as Idle, eventually the run is settled for good.
C15_Original == <>[]Settled

\* C15 as amended: the same when the state file, if there is one, can be
\* read.
C15_RetryUntilPersisted == (file.exists => file.readable) => <>[]Settled

\* A run that retried after a failed send, sent and wrote.
C15_Witness ==
    \E p \in Invocations :
        /\ retryDue[p] /\ pc[p] = "done" /\ sendErr[p] = "nil"
        /\ written[p] = <<TRUE>> /\ loadState(file) = Triggered

\* C16 as stated: with writes that succeed, a run is about to send after a
\* notification of the same crossing only if invocations have overlapped;
\* and two runs that both loaded Idle and fetched a price <= target have
\* each called sendPushover.
C16_Original ==
    /\ \A p \in Invocations : (pc[p] = "send" /\ alerted) => overlapped
    /\ \A p, q \in Invocations :
          (/\ p # q
           /\ Fetched(p) /\ loaded[p] = Idle /\ price22K[p] <= TargetPrice
           /\ Fetched(q) /\ loaded[q] = Idle /\ price22K[q] <= TargetPrice)
          => sendCalls[p] = 1 /\ sendCalls[q] = 1

\* C16 as amended: the same, for a state file that can be read.
C16_OverlapDuplicates ==
    /\ \A p \in Invocations :
          (pc[p] = "send" /\ alerted /\ (file.exists => file.readable))
          => overlapped
    /\ \A p, q \in Invocations :
          (/\ p # q
           /\ Fetched(p) /\ loaded[p] = Idle /\ price22K[p] <= TargetPrice
           /\ Fetched(q) /\ loaded[q] = Idle /\ price22K[q] <= TargetPrice)
          => sendCalls[p] = 1 /\ sendCalls[q] = 1

\* Two overlapping runs of a readable state that have both notified.
C16_Witness ==
    \E p, q \in Invocations :
        /\ p # q /\ overlapped
        /\ fileAtLoad[p] = NoFile /\ fileAtLoad[q] = NoFile
        /\ pc[p] = "done" /\ pc[q] = "done"
        /\ sendErr[p] = "nil" /\ sendErr[q] = "nil"

\* The file holds alert_triggered = true.
PersistedTriggered == file.exists /\ Unmarshal(file.data).s = Triggered

\* C17: from no state file or one holding alert_triggered = false, the file
\* holds true only if a send has succeeded and no reset write has succeeded
\* since.
C17_TriggeredOnlyAfterNotification == PersistedTriggered => notifiedSince

\* Triggered persisted by a run that notified.
C17_Witness ==
    \E p \in Invocations :
        /\ PersistedTriggered /\ pc[p] = "done" /\ sendErr[p] = "nil"
        /\ written[p] = <<TRUE>>

====
